---- MODULE Spec2Model ----
(***************************************************************************)
(* Portfolio dashboard (App component, geminiService, AssetModal).         *)
(*                                                                         *)
(* Numbers.  JavaScript numbers are modelled exactly as fixed-point        *)
(* integers: a quantity q is stored as q * QDen, a price is a whole        *)
(* number of currency units, USD_TO_INR = 83.5 is the fraction 167/2, and  *)
(* an amount in INR is therefore an integer number of 1/VDen rupees.       *)
(***************************************************************************)
EXTENDS Integers, Sequences, FiniteSets, TLC

----------------------------------------------------------------------------
(* Bounds of the model *)

\* number of refreshes that may be started (the clock's range)
MaxTime == 2
\* number of saves and deletes the user performs
MaxUserOps == 1
\* number of getAIInsights calls that may be outstanding together
MaxInsightReqs == 2
\* largest collection of the valuation specification
MaxValLen == 3
\* largest collection of the ranking specification
MaxTopLen == 9

----------------------------------------------------------------------------
(* types.ts, constants.tsx *)

CRYPTO == "CRYPTO"
INDIAN_STOCK == "INDIAN_STOCK"
US_STOCK == "US_STOCK"
BANK_ACCOUNT == "BANK_ACCOUNT"
AssetType == {CRYPTO, INDIAN_STOCK, US_STOCK, BANK_ACCOUNT}

\* denominator of the fixed-point quantity: quantity 0.25 is stored as 1
QDen == 4

\* 83.5 as numerator and denominator
USD_TO_INR == <<167, 2>>

\* denominator of every INR amount
VDen == QDen * USD_TO_INR[2]

\* the absent optional field / JSON null
Null == "null"

Asset(id, type, name, symbol, quantity, averagePrice, currentPrice, currency, bankName) ==
    [id |-> id, type |-> type, name |-> name, symbol |-> symbol,
     quantity |-> quantity, averagePrice |-> averagePrice,
     currentPrice |-> currentPrice, currency |-> currency, bankName |-> bankName]

INITIAL_ASSETS ==
    << Asset("1", CRYPTO, "Bitcoin", "BTC", 1, 45000, 64000, "USD", Null),
       Asset("2", INDIAN_STOCK, "Reliance Industries", "RELIANCE", 50 * QDen, 2400, 2950, "INR", Null),
       Asset("3", US_STOCK, "Nvidia Corp", "NVDA", 10 * QDen, 450, 820, "USD", Null),
       Asset("4", BANK_ACCOUNT, "Savings Account", "HDFC", 1 * QDen, 450000, 450000, "INR", "HDFC Bank") >>

----------------------------------------------------------------------------
(* JavaScript arithmetic *)

\* Math.floor in place of Math.round
MathRound_Floor(n, d) == n \div d

\* Math.round on a non-negative or negative amount n/d: nearest integer, halves up
MathRound(n, d) == (2 * n + d) \div (2 * d)

RECURSIVE Gcd(_, _)
Gcd(a, b) == IF b = 0 THEN a ELSE Gcd(b, a % b)

Abs(n) == IF n < 0 THEN -n ELSE n

\* a JavaScript number that is the exact fraction n/d, in lowest terms
Num(n, d) ==
    LET g == Gcd(Abs(n), d)
    IN  [kind |-> "num", n |-> n \div g, d |-> d \div g]

\* JavaScript a / b on integers: x/0 is Infinity, -Infinity or NaN
JsDiv(a, b) ==
    IF b = 0
    THEN IF a = 0 THEN [kind |-> "NaN", n |-> 0, d |-> 1]
         ELSE IF a > 0 THEN [kind |-> "Infinity", n |-> 1, d |-> 1]
         ELSE [kind |-> "Infinity", n |-> -1, d |-> 1]
    ELSE IF b > 0 THEN Num(a, b) ELSE Num(-a, -b)

\* JavaScript x * k for a whole k > 0
JsTimes(x, k) ==
    IF x.kind = "num"
    THEN LET g == Gcd(k, x.d) IN [kind |-> "num", n |-> x.n * (k \div g), d |-> x.d \div g]
    ELSE x

Zero == [kind |-> "num", n |-> 0, d |-> 1]

\* x.toFixed(1): the decimal with one digit nearest to x (halves away from
\* zero), as a number of tenths; NaN and Infinity print as themselves
ToFixed1(x) ==
    IF x.kind # "num" THEN x.kind
    ELSE LET a == Abs(x.n)
             whole == a \div x.d
             r1 == (a % x.d) * 10
             digit == r1 \div x.d
             r2 == r1 % x.d
             tenths == whole * 10 + digit + (IF 2 * r2 >= x.d THEN 1 ELSE 0)
         IN  IF x.n < 0 THEN -tenths ELSE tenths

----------------------------------------------------------------------------
(* Valuation (App, useMemo blocks) *)

\* the conversion forgotten
InrOrRate_NoRate(currency, val) == val * USD_TO_INR[2]

\* sum + (asset.currency === 'INR' ? val : val * USD_TO_INR), in 1/VDen rupees
InrOrRate(currency, val) ==
    IF currency = "INR" THEN val * USD_TO_INR[2] ELSE val * USD_TO_INR[1]

RECURSIVE Reduce(_, _)
\* .reduce((sum, asset) => sum + term, 0), left to right, on the assets' terms
Reduce(terms, sum) ==
    IF terms = <<>> THEN sum
    ELSE Reduce(Tail(terms), sum + Head(terms))

MarketTerm(asset) == InrOrRate(asset.currency, asset.quantity * asset.currentPrice)

\* (asset.averagePrice || 0): every asset of the model has an averagePrice
OrZero(x) == IF x = 0 THEN 0 ELSE x

InvestedTerm(asset) == InrOrRate(asset.currency, asset.quantity * OrZero(asset.averagePrice))

totalValueINR(as) == Reduce([k \in 1..Len(as) |-> MarketTerm(as[k])], 0)

totalInvestedINR(as) == Reduce([k \in 1..Len(as) |-> InvestedTerm(as[k])], 0)

totalProfitINR(as) == totalValueINR(as) - totalInvestedINR(as)

\* the percentage without its zero guard
totalProfitPct_NoGuard(as) ==
    JsTimes(JsDiv(totalProfitINR(as), totalInvestedINR(as)), 100)

totalProfitPct(as) ==
    IF totalInvestedINR(as) > 0
    THEN JsTimes(JsDiv(totalProfitINR(as), totalInvestedINR(as)), 100)
    ELSE Zero

\* a.currency === 'USD' ? USD_TO_INR : 1, applied to val, in 1/VDen rupees
UsdOrOne(currency, val) ==
    IF currency = "USD" THEN val * USD_TO_INR[1] ELSE val * USD_TO_INR[2]

TypeColor(type) ==
    IF type = CRYPTO THEN "#f59e0b"
    ELSE IF type = INDIAN_STOCK THEN "#3b82f6"
    ELSE IF type = US_STOCK THEN "#6366f1" ELSE "#10b981"

\* investedValue > 0 ? (profit / investedValue) * 100 : 0
AssetProfitPct(marketValue, investedValue) ==
    IF investedValue > 0
    THEN JsTimes(JsDiv(marketValue - investedValue, investedValue), 100)
    ELSE Zero

\* the object the .map callback of assetPerformanceData builds for asset a
PerfEntry(a) ==
    LET marketValue == UsdOrOne(a.currency, a.quantity * a.currentPrice)
        investedValue == UsdOrOne(a.currency, a.quantity * OrZero(a.averagePrice))
        profitPct == AssetProfitPct(marketValue, investedValue)
    IN  [symbol |-> a.symbol,
         name |-> a.name,
         invested |-> MathRound(investedValue, VDen),
         value |-> MathRound(marketValue, VDen),
         profitPct |-> ToFixed1(profitPct),
         displayProfit |-> <<IF profitPct.kind = "NaN" \/ profitPct.n < 0 THEN "" ELSE "+",
                            ToFixed1(profitPct), "%">>,
         color |-> TypeColor(a.type)]

\* .sort comparator (a, b) => b.value - a.value: positive when b goes first
PerfCompare(a, b) == b.value - a.value

RECURSIVE InsertSorted_Unstable(_, _)
\* a sort that puts p before the elements it ties with
InsertSorted_Unstable(p, sorted) ==
    IF sorted = <<>> THEN <<p>>
    ELSE IF PerfCompare(Head(sorted)[2], p[2]) >= 0
         THEN <<p>> \o sorted
         ELSE <<Head(sorted)>> \o InsertSorted_Unstable(p, Tail(sorted))

RECURSIVE InsertSorted(_, _)
\* Array.prototype.sort is stable: p goes after every element that does not
\* compare after it.  Elements are <<index in assets, entry>>.
InsertSorted(p, sorted) ==
    IF sorted = <<>> THEN <<p>>
    ELSE IF PerfCompare(Head(sorted)[2], p[2]) > 0
         THEN <<p>> \o sorted
         ELSE <<Head(sorted)>> \o InsertSorted(p, Tail(sorted))

RECURSIVE SortFrom(_, _, _)
SortFrom(as, i, sorted) ==
    IF i > Len(as) THEN sorted
    ELSE SortFrom(as, i + 1, InsertSorted(<<i, PerfEntry(as[i])>>, sorted))

\* .slice(0, 8)
TopN == 8

Slice(s, n) == IF Len(s) <= n THEN s ELSE SubSeq(s, 1, n)

\* assets.map(...).sort(...).slice(0, 8), each entry with the index of its asset
PerfRanked(as) == Slice(SortFrom(as, 1, <<>>), TopN)

assetPerformanceData(as) == [k \in 1..Len(PerfRanked(as)) |-> PerfRanked(as)[k][2]]

AllocTypes ==
    << [name |-> "Crypto", type |-> CRYPTO, color |-> "#f59e0b"],
       [name |-> "Indian Stocks", type |-> INDIAN_STOCK, color |-> "#3b82f6"],
       [name |-> "US Stocks", type |-> US_STOCK, color |-> "#6366f1"],
       [name |-> "Bank Accounts", type |-> BANK_ACCOUNT, color |-> "#10b981"] >>

\* assets.filter(a => a.type === t.type).reduce(...), in 1/VDen rupees
TypeValue(as, type) ==
    LET ofType == SelectSeq(as, LAMBDA a : a.type = type)
    IN  Reduce([k \in 1..Len(ofType) |-> MarketTerm(ofType[k])], 0)

AllocBucket(as, t) ==
    [name |-> t.name, value |-> MathRound(TypeValue(as, t.type), VDen), color |-> t.color]

\* .filter(d => d.value >= 0)
AllocKeep_Zero(d) == d.value >= 0

\* .filter(d => d.value > 0)
AllocKeep(d) == d.value > 0

allocationData(as) ==
    SelectSeq([k \in 1..Len(AllocTypes) |-> AllocBucket(as, AllocTypes[k])], AllocKeep)

\* AssetCard: {asset.type !== AssetType.BANK_ACCOUNT && (<p>... %</p>)}
AssetCardShowsProfit(asset) == asset.type # BANK_ACCOUNT

----------------------------------------------------------------------------
(* State *)

VARIABLES
    assets,             \* useState<Asset[]>
    storage,            \* localStorage['wealthtrack_assets']
    isRefreshingPrices, \* useState(false)
    lastUpdated,        \* useState<Date>(new Date())
    now,                \* the wall clock new Date() reads
    refreshes,          \* refreshPrices invocations suspended at their await
    collabCalls,        \* number of ai.models.generateContent price calls issued
    lastTrigger,        \* outcome of the latest refreshPrices() call
    lastRequest,        \* the assets named in the request answered last
    isModalOpen,        \* useState(false)
    editingAsset,       \* useState<Asset | null>(null)
    form,               \* AssetModal: formData and searchQuery
    isFetchingPrice,    \* AssetModal: useState(false)
    lookups,            \* AssetModal: selectAsset calls suspended at their await
    userOps,            \* saves and deletes performed so far
    insights,           \* useState<AIInsight[]>([])
    loadingInsights,    \* useState(false)
    insightReqs,        \* getAIInsights calls suspended at their await
    phase,              \* the App component: "failed", "running", "crashed", "unmounted"
    saved,              \* what localStorage.getItem returned at startup
    getItemCalls        \* number of localStorage.getItem calls

vars == <<assets, storage, isRefreshingPrices, lastUpdated, now, refreshes,
          collabCalls, lastTrigger, lastRequest, isModalOpen, editingAsset, form,
          isFetchingPrice, lookups, userOps,
          insights, loadingInsights, insightReqs, phase, saved, getItemCalls>>

insightVars == <<insights, loadingInsights, insightReqs>>

appVars == <<phase, saved, getItemCalls>>

refreshVars ==
    <<isRefreshingPrices, lastUpdated, now, refreshes, collabCalls, lastTrigger,
      lastRequest>>

lookupVars == <<isFetchingPrice, lookups>>

modalVars == <<isModalOpen, editingAsset, form, isFetchingPrice, lookups>>

\* JSON.stringify(assets) / JSON.parse(saved) on a well-formed array
JsonStringify(as) == [json |-> "array", items |-> as]

JsonParse(text) == text.items

\* per-asset persistence: an effect that writes the latest asset only
PersistEffect_LastOnly(as) ==
    JsonStringify(IF Len(as) = 0 THEN as ELSE <<as[Len(as)]>>)

\* the effect on [assets], run after a render with the new collection as:
\* localStorage.setItem('wealthtrack_assets', JSON.stringify(assets))
PersistEffect(as) == JsonStringify(as)

NoBlob == [json |-> "absent", items |-> <<>>]

\* editingAsset === null
NoAsset == [id |-> Null]

----------------------------------------------------------------------------
(* services/geminiService: getBatchPrices *)

\* no filter: every asset is asked for
Trackable_All(as) == as

\* assets.filter(a => a.type !== 'BANK_ACCOUNT')
Trackable(as) == SelectSeq(as, LAMBDA a : a.type # BANK_ACCOUNT)

\* the assets named in the prompt: `${a.name} (${a.symbol}) in ${a.currency}`
PromptList(trackableAssets) ==
    [k \in 1..Len(trackableAssets) |->
        [name |-> trackableAssets[k].name,
         symbol |-> trackableAssets[k].symbol,
         currency |-> trackableAssets[k].currency]]

\* JSON values of a response object
JNull == [t |-> "null", v |-> 0]

JNum(v) == [t |-> "num", v |-> v]

\* symbols and values the collaborator may answer with
RespSymbols == {"BTC", "HDFC"}

RespValues == {JNull, JNum(0), JNum(70000)}

\* response objects: {} and the objects with one entry
PriceMaps ==
    UNION {[dom -> RespValues] : dom \in {{}} \cup {{sym} : sym \in RespSymbols}}

EmptyMap == [sym \in {} |-> JNull]

\* what generateContent does: it throws ("error"), or it answers with a text:
\* '' ("empty"), 'null', a JSON object, or an object wrapped in prose that
\* JSON.parse rejects ("unparsable")
Responses ==
    {[kind |-> k, map |-> EmptyMap] : k \in {"error", "empty", "null"}}
    \cup {[kind |-> k, map |-> m] : k \in {"object", "unparsable"}, m \in PriceMaps}

\* a lenient parser that digs the object out of the prose
getBatchPrices_Lenient(call, resp) ==
    IF ~call.called THEN [kind |-> "object", map |-> EmptyMap]
    ELSE IF resp.kind \in {"error", "empty"}
         THEN [kind |-> "object", map |-> EmptyMap]
         ELSE IF resp.kind = "null" THEN [kind |-> "null", map |-> EmptyMap]
         ELSE [kind |-> "object", map |-> resp.map]

\* the value getBatchPrices resolves to.  call.called = FALSE: there was no
\* trackable asset and {} was returned at once.  Otherwise
\* JSON.parse(response.text || "{}"), and {} from the catch block when
\* generateContent or JSON.parse throws.
getBatchPrices(call, resp) ==
    IF ~call.called THEN [kind |-> "object", map |-> EmptyMap]
    ELSE IF resp.kind \in {"error", "unparsable", "empty"}
         THEN [kind |-> "object", map |-> EmptyMap]
         ELSE IF resp.kind = "null" THEN [kind |-> "null", map |-> EmptyMap]
         ELSE [kind |-> "object", map |-> resp.map]

\* if (priceMap[asset.symbol]): null, undefined and 0 are falsy
Truthy(map, symbol) ==
    /\ symbol \in DOMAIN map
    /\ map[symbol].t = "num"
    /\ map[symbol].v # 0

\* a callback that takes the refreshed price as the cost basis too
MergeAsset_Rebase(asset, map) ==
    IF Truthy(map, asset.symbol)
    THEN [asset EXCEPT !.currentPrice = map[asset.symbol].v,
                       !.averagePrice = map[asset.symbol].v]
    ELSE asset

\* the .map callback of the merge
MergeAsset(asset, map) ==
    IF Truthy(map, asset.symbol)
    THEN [asset EXCEPT !.currentPrice = map[asset.symbol].v]
    ELSE asset

\* prev => prev.map(...)
MergePrices(prev, map) == [k \in 1..Len(prev) |-> MergeAsset(prev[k], map)]

----------------------------------------------------------------------------
(* components/AssetModal *)

\* the initial formData and searchQuery
DefaultForm ==
    [data |-> Asset(Null, CRYPTO, "", "", 0, 0, 0, "INR", Null), searchQuery |-> ""]

\* category button onClick
TypeClick(f, t) ==
    [data |-> [f.data EXCEPT !.type = t,
                             !.currency = IF t = US_STOCK THEN "USD" ELSE "INR"],
     searchQuery |-> ""]

\* name input onChange: the account name, or handleSearch(query)
NameInput(f, text) ==
    IF f.data.type = BANK_ACCOUNT
    THEN [f EXCEPT !.data.name = text]
    ELSE [f EXCEPT !.searchQuery = text]

\* the formData selectAsset(item) writes: the formData of the render it was
\* called in, with the item and the price getCurrentPrice resolved to
selectAssetWrite(formData, item, price) ==
    [formData EXCEPT !.name = item.name, !.symbol = item.symbol,
                     !.currentPrice = price,
                     !.currency = IF formData.currency # Null THEN formData.currency
                                  ELSE IF formData.type = US_STOCK THEN "USD"
                                  ELSE "INR"]

\* selectAsset(item) when nothing happens between its call and the response
selectAsset(f, item, price) ==
    [data |-> selectAssetWrite(f.data, item, price), searchQuery |-> item.name]

\* quantity input onChange
QuantityInput(f, q) == [f EXCEPT !.data.quantity = q]

\* average price / balance input onChange
AveragePriceInput(f, v) ==
    [f EXCEPT !.data.averagePrice = v,
              !.data.currentPrice = IF f.data.type = BANK_ACCOUNT THEN v
                                    ELSE f.data.currentPrice]

\* what the user does with the open form, as runs of the input handlers:
\* a new holding is searched and filled in, a holding being edited gets
\* another quantity, or another category and its name typed again
FormScripts == {"addDoge", "quantity", "retype"}

Dogecoin == [name |-> "Dogecoin", symbol |-> "DOGE"]

RunScript(f, script) ==
    IF script = "addDoge"
    THEN AveragePriceInput(
            QuantityInput(
                selectAsset(NameInput(TypeClick(f, CRYPTO), "doge"), Dogecoin, 0),
                1),
            1)
    ELSE IF script = "retype"
         THEN NameInput(TypeClick(f, US_STOCK), f.data.name)
         ELSE QuantityInput(f, 2 * QDen)

\* Math.random().toString(36).substr(2, 9)
NewIds == {"r1", "r2"}

\* the ids Math.random may give, up to renaming: one already in the
\* collection, or the first that is not
IdChoices(as) ==
    LET used == {id \in NewIds : \E k \in 1..Len(as) : as[k].id = id}
        unused == NewIds \ used
    IN  used \cup {id \in unused : \A other \in unused : id = other \/ id # "r2"}

\* a || b on numbers
OrElse(a, b) == IF a # 0 THEN a ELSE b

\* the asset handleSubmit builds
SubmittedAsset(f, editing, randomId) ==
    [f.data EXCEPT !.id = IF editing.id # Null THEN editing.id ELSE randomId,
                   !.currentPrice = OrElse(f.data.currentPrice, OrElse(f.data.averagePrice, 0))]

\* the form's required inputs: a controlled input showing '' blocks the submit
FormValid(f) ==
    /\ f.searchQuery # ""
    /\ f.data.quantity # 0
    /\ f.data.averagePrice # 0

----------------------------------------------------------------------------
(* services/geminiService: getAIInsights.  App: the insight effect *)

\* an insight list is known by its length and by the prompt it answers
EmptyList == [kind |-> "array", len |-> 0, prompt |-> NoBlob]

\* JSON.parse('null')
NullInsights == [kind |-> "null", len |-> 0, prompt |-> NoBlob]

\* `Assets: ${JSON.stringify(assets)}`
InsightPrompt(as) == JsonStringify(as)

\* what generateContent does: it throws ("error"), or it answers with a text:
\* '' ("empty"), prose that JSON.parse rejects ("unparsable"), 'null', or
\* an array of insights ("array")
InsightResponses == {"error", "unparsable", "empty", "null", "array"}

\* a parser that digs the array out of the prose
getAIInsights_Lenient(prompt, resp) ==
    IF resp \in {"error", "empty"} THEN EmptyList
    ELSE IF resp = "null" THEN NullInsights
    ELSE [kind |-> "array", len |-> 3, prompt |-> prompt]

\* the value getAIInsights resolves to: JSON.parse(response.text || "[]"),
\* and [] from the catch block when generateContent or JSON.parse throws
getAIInsights(prompt, resp) ==
    IF resp \in {"error", "unparsable", "empty"} THEN EmptyList
    ELSE IF resp = "null" THEN NullInsights
    ELSE [kind |-> "array", len |-> 3, prompt |-> prompt]

\* an effect that starts nothing while a request is outstanding
fetchInsights_Dedup(as) ==
    IF Len(as) = 0
    THEN /\ insights' = EmptyList
         /\ UNCHANGED <<loadingInsights, insightReqs>>
    ELSE IF Len(insightReqs) > 0
         THEN UNCHANGED insightVars
         ELSE /\ loadingInsights' = TRUE
              /\ insightReqs' = Append(insightReqs, [prompt |-> InsightPrompt(as)])
              /\ UNCHANGED insights

\* the effect on [assets], run after a render with the new collection as,
\* up to its await
fetchInsights(as) ==
    IF Len(as) = 0
    THEN /\ insights' = EmptyList
         /\ UNCHANGED <<loadingInsights, insightReqs>>
    ELSE /\ Len(insightReqs) < MaxInsightReqs
         /\ loadingInsights' = TRUE
         /\ insightReqs' = Append(insightReqs, [prompt |-> InsightPrompt(as)])
         /\ UNCHANGED insights

\* seq without its i-th element
Without(seq, i) ==
    [k \in 1..(Len(seq) - 1) |-> IF k < i THEN seq[k] ELSE seq[k + 1]]

\* insights.length > 0 ? insights.map(...) : ... in the render that follows
\* setLoadingInsights(false): a TypeError when insights is null
RenderThrows(list) == list.kind = "null"

\* a resumption that drops the result of any request but the latest issued
InsightResume_LatestWins(i, resp) ==
    LET res == IF i = Len(insightReqs)
               THEN getAIInsights(insightReqs[i].prompt, resp)
               ELSE insights
    IN  /\ phase = "running"
        /\ insights' = res
        /\ loadingInsights' = FALSE
        /\ insightReqs' = Without(insightReqs, i)
        /\ IF RenderThrows(res)
           THEN /\ phase' = "crashed"
                /\ isModalOpen' = FALSE
                /\ editingAsset' = NoAsset
                /\ form' = DefaultForm
                /\ UNCHANGED lookupVars
           ELSE UNCHANGED <<phase, modalVars>>
        /\ UNCHANGED <<assets, storage, refreshVars, userOps, saved, getItemCalls>>

\* fetchInsights / the button's promise chain from the await on, for the
\* i-th outstanding call and the collaborator's response
InsightResume(i, resp) ==
    LET res == getAIInsights(insightReqs[i].prompt, resp)
    IN  /\ phase = "running"
        /\ insights' = res
        /\ loadingInsights' = FALSE
        /\ insightReqs' = Without(insightReqs, i)
        /\ IF RenderThrows(res)
           THEN /\ phase' = "crashed"
                /\ isModalOpen' = FALSE
                /\ editingAsset' = NoAsset
                /\ form' = DefaultForm
                /\ UNCHANGED lookupVars
           ELSE UNCHANGED <<phase, modalVars>>
        /\ UNCHANGED <<assets, storage, refreshVars, userOps, saved, getItemCalls>>

InsightComplete ==
    \E i \in 1..Len(insightReqs), resp \in InsightResponses : InsightResume(i, resp)

\* "Generate AI Report" onClick; disabled={loadingInsights || assets.length === 0}
GenerateReportClick ==
    /\ phase = "running"
    /\ ~loadingInsights
    /\ Len(assets) # 0
    /\ Len(insightReqs) < MaxInsightReqs
    /\ insights' = EmptyList
    /\ loadingInsights' = TRUE
    /\ insightReqs' = Append(insightReqs, [prompt |-> InsightPrompt(assets)])
    /\ UNCHANGED <<assets, storage, refreshVars, modalVars, userOps, appVars>>

----------------------------------------------------------------------------
(* App: refreshPrices, the interval effect and the refresh button *)

\* the guard without its in-flight test
RefreshGuard_NoInFlight == Len(assets) = 0

\* if (isRefreshingPrices || assets.length === 0) return;
RefreshGuard == isRefreshingPrices \/ Len(assets) = 0

\* refreshPrices() up to the await: the guard, setIsRefreshingPrices(true) and
\* the synchronous part of getBatchPrices(assets)
refreshPrices ==
    IF RefreshGuard
    THEN /\ lastTrigger' = "dropped"
         /\ UNCHANGED <<assets, storage, isRefreshingPrices, lastUpdated, now,
                        refreshes, collabCalls, lastRequest, modalVars, userOps,
                        insightVars, appVars>>
    ELSE /\ now + Len(refreshes) < MaxTime
         /\ isRefreshingPrices' = TRUE
         /\ LET trackableAssets == Trackable(assets)
                called == Len(trackableAssets) # 0
            IN  /\ refreshes' = Append(refreshes,
                        [called |-> called, request |-> PromptList(trackableAssets),
                         snapshot |-> assets])
                /\ collabCalls' = IF called THEN collabCalls + 1 ELSE collabCalls
         /\ lastTrigger' = "started"
         /\ UNCHANGED <<assets, storage, lastUpdated, now, lastRequest, modalVars,
                        userOps, insightVars, appVars>>

\* the App component is mounted and rendering: its handlers can be invoked
\* and its state setters take effect
Mounted == phase = "running"

\* an interval that is never cleared
IntervalActive_Leaked == phase \in {"running", "unmounted"}

\* the interval set by the effect is live: return () => clearInterval(interval)
IntervalActive == phase = "running"

\* setInterval(() => refreshPrices(), 5 * 60 * 1000)
TimerTick ==
    /\ IntervalActive
    /\ refreshPrices

\* <button onClick={refreshPrices} disabled={isRefreshingPrices}>
ClickRefresh ==
    /\ Mounted
    /\ ~isRefreshingPrices
    /\ refreshPrices

\* refreshPrices() from the await on, for the i-th suspended invocation and
\* the collaborator's response
\* if (Object.keys(priceMap).length > 0); Object.keys(null) throws into the
\* catch block
HasPrices(priceMap) == priceMap.kind = "object" /\ DOMAIN priceMap.map # {}

\* setLastUpdated moved out of the if
NextLastUpdated_Always(priceMap, prev, t) == t

\* the value of lastUpdated after the try block, read at time t
NextLastUpdated(priceMap, prev, t) == IF HasPrices(priceMap) THEN t ELSE prev

\* the flag reset at the end of the try block instead of in a finally
NextIsRefreshing_NoFinally(priceMap) == priceMap.kind # "object"

\* finally { setIsRefreshingPrices(false) }: the flag after the try block,
\* whether it ended normally or in the catch block
NextIsRefreshing(priceMap) == FALSE

\* a merge into the collection the invocation was started with
RefreshResume_Snapshot(i, resp) ==
    LET priceMap == getBatchPrices(refreshes[i], resp)
        merged == HasPrices(priceMap)
    IN  /\ Mounted
        /\ now' = now + 1
        /\ lastUpdated' = NextLastUpdated(priceMap, lastUpdated, now')
        /\ assets' = IF merged THEN MergePrices(refreshes[i].snapshot, priceMap.map) ELSE assets
        /\ storage' = IF merged THEN PersistEffect(assets') ELSE storage
        /\ isRefreshingPrices' = NextIsRefreshing(priceMap)
        /\ refreshes' = [k \in 1..(Len(refreshes) - 1) |->
                            IF k < i THEN refreshes[k] ELSE refreshes[k + 1]]
        /\ lastRequest' = refreshes[i].request
        /\ IF merged THEN fetchInsights(assets') ELSE UNCHANGED insightVars
        /\ UNCHANGED <<collabCalls, lastTrigger, modalVars, userOps, appVars>>

RefreshResume(i, resp) ==
    LET priceMap == getBatchPrices(refreshes[i], resp)
        merged == HasPrices(priceMap)
    IN  /\ Mounted
        /\ now' = now + 1
        /\ lastUpdated' = NextLastUpdated(priceMap, lastUpdated, now')
        /\ assets' = IF merged THEN MergePrices(assets, priceMap.map) ELSE assets
        /\ storage' = IF merged THEN PersistEffect(assets') ELSE storage
        /\ isRefreshingPrices' = NextIsRefreshing(priceMap)
        /\ refreshes' = [k \in 1..(Len(refreshes) - 1) |->
                            IF k < i THEN refreshes[k] ELSE refreshes[k + 1]]
        /\ lastRequest' = refreshes[i].request
        /\ IF merged THEN fetchInsights(assets') ELSE UNCHANGED insightVars
        /\ UNCHANGED <<collabCalls, lastTrigger, modalVars, userOps, appVars>>

RefreshComplete ==
    \E i \in 1..Len(refreshes) :
        IF refreshes[i].called
        THEN \E resp \in Responses : RefreshResume(i, resp)
        ELSE RefreshResume(i, [kind |-> "empty", map |-> EmptyMap])

\* App is removed from the page: the cleanup of the effects runs and the
\* state of the dialog and of the insight panel goes with the components
Unmount ==
    /\ Mounted
    /\ phase' = "unmounted"
    /\ isModalOpen' = FALSE
    /\ editingAsset' = NoAsset
    /\ form' = DefaultForm
    /\ UNCHANGED lookupVars
    /\ insights' = EmptyList
    /\ loadingInsights' = FALSE
    /\ UNCHANGED <<assets, storage, refreshVars, userOps, insightReqs,
                   saved, getItemCalls>>

\* a suspended refreshPrices resuming after App is gone: the state setters
\* of an unmounted component do nothing and no effect runs
RefreshResumeUnmounted(i) ==
    /\ ~Mounted
    /\ refreshes' = Without(refreshes, i)
    /\ UNCHANGED <<assets, storage, isRefreshingPrices, lastUpdated, now,
                   collabCalls, lastTrigger, lastRequest, modalVars, userOps,
                   insightVars, appVars>>

\* a suspended insight request resuming after App is gone
InsightResumeUnmounted(i) ==
    /\ ~Mounted
    /\ insightReqs' = Without(insightReqs, i)
    /\ UNCHANGED <<assets, storage, refreshVars, modalVars, userOps,
                   insights, loadingInsights, appVars>>

----------------------------------------------------------------------------
(* App: the store's mutation entry points *)

\* an updater that always appends
SaveInto_Append(prev, asset) == Append(prev, asset)

\* the updater handleSaveAsset hands to setAssets
SaveInto(prev, asset) ==
    IF \E k \in 1..Len(prev) : prev[k].id = asset.id
    THEN [k \in 1..Len(prev) |-> IF prev[k].id = asset.id THEN asset ELSE prev[k]]
    ELSE Append(prev, asset)

openAddModal ==
    /\ Mounted
    /\ ~isModalOpen
    /\ editingAsset' = NoAsset
    /\ isModalOpen' = TRUE
    /\ form' = DefaultForm
    /\ UNCHANGED lookupVars
    /\ UNCHANGED <<assets, storage, refreshVars, userOps, insightVars, appVars>>

handleEditAsset(i) ==
    /\ Mounted
    /\ ~isModalOpen
    /\ editingAsset' = assets[i]
    /\ isModalOpen' = TRUE
    /\ form' = [data |-> editingAsset', searchQuery |-> editingAsset'.name]
    /\ UNCHANGED lookupVars
    /\ UNCHANGED <<assets, storage, refreshVars, userOps, insightVars, appVars>>

\* the form as the initialisation effect of AssetModal left it
PristineForm ==
    IF editingAsset = NoAsset
    THEN DefaultForm
    ELSE [data |-> editingAsset, searchQuery |-> editingAsset.name]

\* the user goes through the form once
FormInput(script) ==
    /\ Mounted
    /\ isModalOpen
    /\ form = PristineForm
    /\ script = "addDoge" <=> editingAsset = NoAsset
    /\ form' = RunScript(form, script)
    /\ UNCHANGED lookupVars
    /\ UNCHANGED <<assets, storage, refreshVars, isModalOpen, editingAsset, userOps,
                   insightVars, appVars>>

\* onClose, and the form-initialisation effect that follows it
onClose ==
    /\ Mounted
    /\ isModalOpen
    /\ isModalOpen' = FALSE
    /\ editingAsset' = NoAsset
    /\ form' = DefaultForm
    /\ UNCHANGED lookupVars
    /\ UNCHANGED <<assets, storage, refreshVars, userOps, insightVars, appVars>>

\* handleSubmit: onSave(asset) = handleSaveAsset(asset), then onClose(); the
\* submit button is disabled while isFetchingPrice
handleSubmit(randomId) ==
    /\ Mounted
    /\ isModalOpen
    /\ ~isFetchingPrice
    /\ FormValid(form)
    /\ userOps < MaxUserOps
    /\ assets' = SaveInto(assets, SubmittedAsset(form, editingAsset, randomId))
    /\ storage' = PersistEffect(assets')
    /\ fetchInsights(assets')
    /\ isModalOpen' = FALSE
    /\ editingAsset' = NoAsset
    /\ form' = DefaultForm
    /\ UNCHANGED lookupVars
    /\ userOps' = userOps + 1
    /\ UNCHANGED <<refreshVars, appVars>>

\* handleDeleteAsset(id), the confirm dialog answered with OK
handleDeleteAsset(id) ==
    /\ Mounted
    /\ ~isModalOpen
    /\ userOps < MaxUserOps
    /\ assets' = SelectSeq(assets, LAMBDA a : a.id # id)
    /\ storage' = PersistEffect(assets')
    /\ fetchInsights(assets')
    /\ userOps' = userOps + 1
    /\ UNCHANGED <<refreshVars, modalVars, appVars>>

----------------------------------------------------------------------------
(* The program *)

\* a holding added in an earlier session
SavedDoge == Asset("r1", CRYPTO, "Dogecoin", "DOGE", 2 * QDen, 1, 1, "INR", Null)

\* what an earlier session left: that holding and the seed's bank account
SavedCollection == <<SavedDoge, INITIAL_ASSETS[4]>>

\* localStorage at startup: nothing saved, a saved empty collection, saved
\* collections of one and of two assets, a text JSON.parse rejects, the JSON
\* text of something that is not an array
StoredBlobs ==
    {NoBlob, JsonStringify(<<>>), JsonStringify(<<SavedDoge>>),
     JsonStringify(SavedCollection)}
    \cup {[json |-> j, items |-> <<>>] : j \in {"malformed", "notArray"}}

\* saved ? JSON.parse(saved) : INITIAL_ASSETS
InitialAssets(blob) ==
    IF blob.json = "absent" THEN INITIAL_ASSETS ELSE JsonParse(blob)

\* JSON.parse(saved) throws out of the useState initialiser, or the first
\* render throws at assets.reduce: nothing is rendered and no effect runs
StartupThrows(blob) == blob.json \in {"malformed", "notArray"}

\* useState initialisers and the first run of the effects
Init ==
    /\ saved \in StoredBlobs
    /\ getItemCalls = 1
    /\ phase = IF StartupThrows(saved) THEN "failed" ELSE "running"
    /\ assets = InitialAssets(saved)
    /\ storage = IF StartupThrows(saved) THEN saved ELSE PersistEffect(assets)
    /\ insights = EmptyList
    /\ loadingInsights = (~StartupThrows(saved) /\ Len(assets) # 0)
    /\ insightReqs = IF loadingInsights
                     THEN <<[prompt |-> InsightPrompt(assets)]>>
                     ELSE <<>>
    /\ isRefreshingPrices = FALSE
    /\ now = 0
    /\ lastUpdated = now
    /\ refreshes = <<>>
    /\ collabCalls = 0
    /\ lastTrigger = "none"
    /\ lastRequest = <<>>
    /\ isModalOpen = FALSE
    /\ editingAsset = NoAsset
    /\ form = DefaultForm
    /\ isFetchingPrice = FALSE
    /\ lookups = <<>>
    /\ userOps = 0

Next ==
    \/ TimerTick
    \/ ClickRefresh
    \/ RefreshComplete
    \/ openAddModal
    \/ \E i \in 1..Len(assets) : handleEditAsset(i)
    \/ \E script \in FormScripts : FormInput(script)
    \/ onClose
    \/ \E randomId \in IdChoices(assets) : handleSubmit(randomId)
    \/ \E i \in 1..Len(assets) : handleDeleteAsset(assets[i].id)
    \/ InsightComplete
    \/ GenerateReportClick
    \/ Unmount
    \/ \E i \in 1..Len(refreshes) : RefreshResumeUnmounted(i)
    \/ \E i \in 1..Len(insightReqs) : InsightResumeUnmounted(i)

Spec == Init /\ [][Next]_vars

\* every collaborator call of a refresh completes: the promise
\* getBatchPrices returns is settled and the suspended refreshPrices resumes
SpecLive == Spec /\ WF_vars(RefreshComplete)

----------------------------------------------------------------------------
(* The valuation functions on drawn collections *)

\* holdings the valuation is computed for: the two of the worked example, a
\* quarter of a rupee, a holding that cost nothing, a balance, a worthless one
ValTemplates ==
    { INITIAL_ASSETS[1],
      INITIAL_ASSETS[2],
      Asset(Null, CRYPTO, "Dogecoin", "DOGE", 1, 1, 1, "INR", Null),
      Asset(Null, US_STOCK, "Gift", "GIFT", 1 * QDen, 0, 2, "USD", Null),
      Asset(Null, BANK_ACCOUNT, "Cash", "", 1 * QDen, 100, 100, "INR", "Cash"),
      Asset(Null, INDIAN_STOCK, "Bust", "BUST", 1 * QDen, 3, 0, "INR", Null) }

\* holdings the ranking is computed for: 62.625, 62.75 and 10 rupees
TopTemplates ==
    { Asset(Null, US_STOCK, "A", "A", 1, 3, 3, "USD", Null),
      Asset(Null, INDIAN_STOCK, "B", "B", 1, 251, 251, "INR", Null),
      Asset(Null, INDIAN_STOCK, "C", "C", 1 * QDen, 10, 10, "INR", Null) }

\* the collection under valuation grows by a holding t, its id the next
\* unused number
AddHolding(t, max) ==
    /\ Len(assets) < max
    /\ assets' = SaveInto(assets, [t EXCEPT !.id = ToString(Len(assets) + 1)])
    /\ storage' = PersistEffect(assets')
    /\ UNCHANGED <<refreshVars, modalVars, userOps, insightVars, appVars>>

InitVal ==
    /\ saved = JsonStringify(<<>>)
    /\ getItemCalls = 1
    /\ phase = "running"
    /\ assets = InitialAssets(saved)
    /\ storage = PersistEffect(assets)
    /\ insights = EmptyList
    /\ loadingInsights = FALSE
    /\ insightReqs = <<>>
    /\ isRefreshingPrices = FALSE
    /\ now = 0
    /\ lastUpdated = now
    /\ refreshes = <<>>
    /\ collabCalls = 0
    /\ lastTrigger = "none"
    /\ lastRequest = <<>>
    /\ isModalOpen = FALSE
    /\ editingAsset = NoAsset
    /\ form = DefaultForm
    /\ isFetchingPrice = FALSE
    /\ lookups = <<>>
    /\ userOps = 0

NextVal == \E t \in ValTemplates : AddHolding(t, MaxValLen)

SpecVal == InitVal /\ [][NextVal]_vars

NextTop == \E t \in TopTemplates : AddHolding(t, MaxTopLen)

SpecTop == InitVal /\ [][NextTop]_vars

----------------------------------------------------------------------------
(* Price refresh: the merge, the guard, failures, the timestamp *)

\* C1: when a response mapping is merged, every asset whose symbol has a
\* non-null entry gets that entry as its currentPrice, and every asset whose
\* symbol is absent from the mapping keeps its currentPrice.
C1_MergeReplacesEveryPrice ==
    [][\A i \in 1..Len(refreshes), resp \in Responses :
          (refreshes[i].called /\ resp.kind = "object" /\ RefreshResume(i, resp)) =>
              /\ Len(assets') = Len(assets)
              /\ \A k \in 1..Len(assets) :
                    LET symbol == assets[k].symbol
                    IN  /\ (symbol \in DOMAIN resp.map /\ resp.map[symbol].t = "num") =>
                              assets'[k].currentPrice = resp.map[symbol].v
                        /\ symbol \notin DOMAIN resp.map =>
                              assets'[k].currentPrice = assets[k].currentPrice]_vars

\* C2: a price-refresh merge never changes the currentPrice of a BANK_ACCOUNT
\* asset, whatever mapping the collaborator returns.
C2_BankPriceUntouched ==
    [][\A i \in 1..Len(refreshes), resp \in Responses :
          RefreshResume(i, resp) =>
              /\ Len(assets') = Len(assets)
              /\ \A k \in 1..Len(assets) :
                    assets[k].type = BANK_ACCOUNT =>
                        assets'[k].currentPrice = assets[k].currentPrice]_vars

\* C3: at most one refresh is in flight at any time, and a refreshPrices()
\* call made while one is outstanding issues no collaborator call, starts
\* nothing and leaves the store and the persisted blob unchanged.
C3_AtMostOneRefresh ==
    /\ [](Len(refreshes) <= 1 /\ (Len(refreshes) = 1 => isRefreshingPrices))
    /\ [][(Len(refreshes) > 0 /\ (TimerTick \/ ClickRefresh)) =>
            /\ collabCalls' = collabCalls
            /\ refreshes' = refreshes
            /\ assets' = assets
            /\ storage' = storage]_vars

\* a tick was dropped while the one collaborator call was outstanding
C3_Witness ==
    /\ lastTrigger = "dropped"
    /\ isRefreshingPrices
    /\ Len(refreshes) = 1
    /\ collabCalls = 1

\* C4: a refresh triggered on an empty collection, and a refresh whose
\* collaborator call throws or answers with a text that does not parse,
\* leaves the store and the persisted blob unchanged.  The first starts
\* nothing; after the second no refresh is marked in progress, so the next
\* trigger is served as usual.
C4_FailureKeepsStore ==
    [][/\ (Len(assets) = 0 /\ (TimerTick \/ ClickRefresh)) =>
            /\ assets' = assets
            /\ storage' = storage
            /\ collabCalls' = collabCalls
            /\ refreshes' = refreshes
            /\ isRefreshingPrices' = isRefreshingPrices
       /\ \A i \in 1..Len(refreshes), resp \in Responses :
            (refreshes[i].called /\ resp.kind \in {"error", "unparsable"}) =>
                \/ /\ assets' = assets
                   /\ storage' = storage
                   /\ ~isRefreshingPrices'
                \/ ~RefreshResume(i, resp)]_vars

\* a collaborator call has completed without a merge and the seed prices
\* are still the stored ones
C4_Witness ==
    /\ now > 0
    /\ lastUpdated = 0
    /\ collabCalls > 0
    /\ ~isRefreshingPrices
    /\ assets = INITIAL_ASSETS
    /\ storage = JsonStringify(INITIAL_ASSETS)

\* C5: lastUpdated becomes the current time when a refresh succeeds (the
\* collaborator answered with a non-empty mapping), and keeps its value when
\* the refresh fails (error, unparsable or empty answer, nothing to ask for)
\* or the trigger is dropped.
C5_LastUpdated ==
    [][/\ \A i \in 1..Len(refreshes), resp \in Responses :
            \/ IF /\ refreshes[i].called
                  /\ resp.kind = "object"
                  /\ resp.map # EmptyMap
               THEN lastUpdated' = now' /\ now' > now
               ELSE lastUpdated' = lastUpdated
            \/ ~RefreshResume(i, resp)
       /\ (TimerTick \/ ClickRefresh) => lastUpdated' = lastUpdated]_vars

\* a refresh succeeded at time 1 and the next one failed at time 2
C5_Witness ==
    /\ lastUpdated = 1
    /\ now = 2
    /\ ~isRefreshingPrices

----------------------------------------------------------------------------
(* Valuation: what the claims expect, computed apart from the code *)

\* quantity x currentPrice, times 83.5 for USD and 1 for INR, in 1/VDen rupees
ConvertedValue(a) ==
    a.quantity * a.currentPrice * (IF a.currency = "USD" THEN USD_TO_INR[1] ELSE USD_TO_INR[2])

\* quantity x averagePrice, converted alike
ConvertedCost(a) ==
    a.quantity * a.averagePrice * (IF a.currency = "USD" THEN USD_TO_INR[1] ELSE USD_TO_INR[2])

RECURSIVE SumValue(_, _, _)
\* the sum of the converted values of the assets of the types in `types`
\* among the first n
SumValue(as, n, types) ==
    IF n = 0 THEN 0
    ELSE SumValue(as, n - 1, types)
         + (IF as[n].type \in types THEN ConvertedValue(as[n]) ELSE 0)

RECURSIVE SumCost(_, _)
SumCost(as, n) == IF n = 0 THEN 0 ELSE SumCost(as, n - 1) + ConvertedCost(as[n])

NonNegative(as) ==
    \A k \in 1..Len(as) :
        as[k].quantity >= 0 /\ as[k].averagePrice >= 0 /\ as[k].currentPrice >= 0

\* [{BTC, 0.25 @ 64000 USD}, {RELIANCE, 50 @ 2950 INR}]
IsExample(as) ==
    /\ Len(as) = 2
    /\ as[1].symbol = "BTC" /\ as[1].quantity * 4 = QDen /\ as[1].currentPrice = 64000
    /\ as[1].currency = "USD"
    /\ as[2].symbol = "RELIANCE" /\ as[2].quantity = 50 * QDen /\ as[2].currentPrice = 2950
    /\ as[2].currency = "INR"

\* C6: for a collection with non-negative quantities and prices the total
\* market value is >= 0 and is the sum of quantity x currentPrice, times 83.5
\* for USD and 1 for INR; for BTC 0.25 @ 64000 USD and RELIANCE 50 @ 2950 INR
\* it is 1,483,500.
C6_TotalMarketValue ==
    NonNegative(assets) =>
        /\ totalValueINR(assets) >= 0
        /\ totalValueINR(assets) = SumValue(assets, Len(assets), AssetType)
        /\ IsExample(assets) => totalValueINR(assets) = 1483500 * VDen

C6_Witness == IsExample(assets) /\ totalValueINR(assets) = 1483500 * VDen

\* the percentage the claims expect for a profit on a non-zero cost
ExpectedPct(profit, cost) == Num(100 * profit, cost)

\* C7: the overall profit percent is 0 whenever the invested cost is 0,
\* whatever the market value, and (value - cost) / cost x 100 otherwise; it is
\* always a finite number.  Each entry of the performance list obeys the same
\* rule for its own asset.
C7_ZeroGuard ==
    \A ranked \in {PerfRanked(assets)} :
    LET value == SumValue(assets, Len(assets), AssetType)
        cost == SumCost(assets, Len(assets))
    IN  /\ totalProfitPct(assets).kind = "num"
        /\ cost = 0 => totalProfitPct(assets) = Zero
        /\ cost # 0 => totalProfitPct(assets) = ExpectedPct(value - cost, cost)
        /\ \A j \in 1..Len(ranked) :
              LET a == assets[ranked[j][1]]
                  v == ConvertedValue(a)
                  c == ConvertedCost(a)
              IN  /\ c = 0 => ranked[j][2].profitPct = 0
                  /\ c # 0 => ranked[j][2].profitPct = ToFixed1(ExpectedPct(v - c, c))

\* nothing was invested and the holdings are worth something
C7_Witness ==
    /\ Len(assets) > 0
    /\ totalInvestedINR(assets) = 0
    /\ totalValueINR(assets) > 0
    /\ totalProfitPct(assets) = Zero

\* C8: for the empty collection the total market value, the invested cost,
\* the profit and the percent are 0, and the performance list and the
\* allocation are empty.
C8_EmptyCollection ==
    assets = <<>> =>
        /\ totalValueINR(assets) = 0
        /\ totalInvestedINR(assets) = 0
        /\ totalProfitINR(assets) = 0
        /\ totalProfitPct(assets) = Zero
        /\ assetPerformanceData(assets) = <<>>
        /\ allocationData(assets) = <<>>

C8_Witness == Len(assets) = 0 /\ Len(allocationData(assets)) = 0

FixedOrder == <<CRYPTO, INDIAN_STOCK, US_STOCK, BANK_ACCOUNT>>

BucketName(type) ==
    IF type = CRYPTO THEN "Crypto"
    ELSE IF type = INDIAN_STOCK THEN "Indian Stocks"
    ELSE IF type = US_STOCK THEN "US Stocks" ELSE "Bank Accounts"

\* the names of the buckets of the types in `shown`, in the fixed order
BucketsOf(shown) ==
    LET types == SelectSeq(FixedOrder, LAMBDA type : type \in shown)
    IN  [k \in 1..Len(types) |-> BucketName(types[k])]

AllocationNames(as) == [k \in 1..Len(allocationData(as)) |-> allocationData(as)[k].name]

RoundedValue(a) == (ConvertedValue(a) + VDen \div 2) \div VDen

\* the list has min(8, n) entries, each the entry of a different asset, and
\* ranked by the converted market value (rounded to whole rupees if
\* `rounded`): descending, equal ranks in collection order, and no asset left
\* out outranks one that is in
RankedBy(rounded) ==
    \A ranked \in {PerfRanked(assets)} :
        LET n == Len(assets)
            chosen == {ranked[j][1] : j \in 1..Len(ranked)}
            Rank(a) == IF rounded THEN RoundedValue(a) ELSE ConvertedValue(a)
        IN  /\ Len(ranked) = IF n < 8 THEN n ELSE 8
            /\ assetPerformanceData(assets) = [j \in 1..Len(ranked) |-> ranked[j][2]]
            /\ \A j \in 1..Len(ranked) :
                  /\ ranked[j][1] \in 1..n
                  /\ ranked[j][2].symbol = assets[ranked[j][1]].symbol
            /\ \A j, k \in 1..Len(ranked) :
                  j < k =>
                      /\ ranked[j][1] # ranked[k][1]
                      /\ Rank(assets[ranked[j][1]]) >= Rank(assets[ranked[k][1]])
                      /\ Rank(assets[ranked[j][1]]) = Rank(assets[ranked[k][1]]) =>
                            ranked[j][1] < ranked[k][1]
            /\ \A x \in (1..n) \ chosen :
                  \A j \in 1..Len(ranked) :
                      /\ Rank(assets[x]) <= Rank(assets[ranked[j][1]])
                      /\ Rank(assets[x]) = Rank(assets[ranked[j][1]]) => ranked[j][1] < x

\* C10 as claimed: at most 8 entries, descending by converted market value,
\* equal values in collection order, the entries being the assets with the
\* largest converted market values.
C10_RankedByValue == RankedBy(FALSE)

\* C10 as amended: at most 8 entries, descending by converted market value
\* rounded to whole rupees (the entry's value), equal rounded values in
\* collection order, the entries being the assets with the largest rounded
\* values.
C10_RankedByRoundedValue ==
    /\ RankedBy(TRUE)
    /\ \A ranked \in {PerfRanked(assets)} :
          \A j \in 1..Len(ranked) : ranked[j][2].value = RoundedValue(assets[ranked[j][1]])

\* more than 8 assets, and two neighbours of the list with the same rounded
\* value that differ in converted value
C10_Witness ==
    /\ Len(assets) > 8
    /\ \E ranked \in {PerfRanked(assets)} :
          \E j \in 1..(Len(ranked) - 1) :
              LET a == assets[ranked[j][1]]
                  b == assets[ranked[j + 1][1]]
              IN  RoundedValue(a) = RoundedValue(b) /\ ConvertedValue(a) # ConvertedValue(b)

----------------------------------------------------------------------------
(* Persistence and startup *)

\* C11: whenever App has started, the blob equals the serialization of the
\* whole current collection; every step that changes the collection (add,
\* edit, delete, price merge) rewrites the blob to the serialization of the
\* new collection; localStorage.getItem is called once, at startup.
C11_BlobIsWholeCollection ==
    /\ [](phase # "failed" => storage = JsonStringify(assets))
    /\ [](getItemCalls = 1)
    /\ [][assets' # assets => storage' = JsonStringify(assets')]_vars

\* a holding was saved and a price merge happened, and the blob holds the
\* collection that differs from the one App started with
C11_Witness ==
    /\ userOps = 1
    /\ lastUpdated > 0
    /\ Len(assets) > Len(InitialAssets(saved))
    /\ \E k \in 1..Len(assets) : assets[k].currentPrice = 70000
    /\ storage = JsonStringify(assets)

\* C12: startup never fails, and App starts with the seed portfolio when the
\* stored value is absent or malformed (a text JSON.parse rejects, or the JSON
\* text of something that is not an array) and with the stored collection
\* otherwise.
C12_StartupFallsBack ==
    /\ phase # "failed"
    /\ (userOps = 0 /\ now = 0) =>
          assets = IF saved.json = "array" THEN JsonParse(saved) ELSE INITIAL_ASSETS

----------------------------------------------------------------------------
(* The data model: ids, types, bank accounts *)

\* C13: no two assets of the collection have the same id, after any sequence
\* of adds, edits, deletes and price merges from the seed portfolio (or from a
\* stored collection with distinct ids).
C13_UniqueIds ==
    \A j, k \in 1..Len(assets) : j # k => assets[j].id # assets[k].id

\* Math.random gave the id of the stored holding again: the add replaced it
C13_Witness ==
    /\ saved = JsonStringify(SavedCollection)
    /\ userOps = 1
    /\ Len(assets) = Len(SavedCollection)
    /\ assets[1].id = SavedDoge.id
    /\ assets[1].quantity = 1

\* C14: no step changes the type stored for an id: an asset that is in the
\* collection before and after a step has the same type before and after.
C14_TypeFixed ==
    [][\A j \in 1..Len(assets), k \in 1..Len(assets') :
          assets[j].id = assets'[k].id => assets[j].type = assets'[k].type]_vars

\* C15: no per-asset profit figure produced for display belongs to a
\* BANK_ACCOUNT asset: the asset card of a bank account shows no profit
\* percentage, and no entry of the per-asset performance list (each carries
\* profitPct and displayProfit) is the entry of a bank account.
C15_NoBankProfit ==
    /\ \A k \in 1..Len(assets) :
          AssetCardShowsProfit(assets[k]) => assets[k].type # BANK_ACCOUNT
    /\ \A ranked \in {PerfRanked(assets)} :
          \A j \in 1..Len(ranked) : assets[ranked[j][1]].type # BANK_ACCOUNT

----------------------------------------------------------------------------
(* Insights *)

\* C16: when an insight request completes with a collaborator failure or
\* with a response that does not parse, the insight list becomes empty, the
\* loading indicator is cleared and App keeps running (no error state).
C16_InsightFailure ==
    [][\A i \in 1..Len(insightReqs), resp \in {"error", "unparsable"} :
          \/ /\ insights' = EmptyList
             /\ ~loadingInsights'
             /\ phase' = "running"
          \/ ~InsightResume(i, resp)]_vars

\* a request has completed leaving an empty list and no loading indicator,
\* after a save, while another request is still outstanding
C16_Witness ==
    /\ phase = "running"
    /\ userOps = 1
    /\ Len(assets) # 0
    /\ insights = EmptyList
    /\ ~loadingInsights
    /\ Len(insightReqs) = 1

\* C17: while an insight request is outstanding, however it was started, the
\* previous insight list is retained and the loading indicator is set: every
\* step of the running App that ends with a request outstanding leaves the
\* insight list as it was and has the loading indicator set.
C17_ListRetainedWhileLoading ==
    [][(phase' = "running" /\ Len(insightReqs') > 0) =>
          /\ insights' = insights
          /\ loadingInsights']_vars

----------------------------------------------------------------------------
(* Teardown *)

\* C18: once App is torn down, no step triggers a refresh (no refreshPrices
\* call, no collaborator call, no new suspended invocation) and no step
\* changes the collection or the persisted blob, the resumption of a refresh
\* that was in flight at teardown included.
C18_NothingAfterTeardown ==
    [][phase = "unmounted" =>
          /\ assets' = assets
          /\ storage' = storage
          /\ lastTrigger' = lastTrigger
          /\ collabCalls' = collabCalls
          /\ Len(refreshes') <= Len(refreshes)
          /\ phase' = "unmounted"]_vars

\* a refresh was in flight at teardown and its response has arrived since
C18_Witness ==
    /\ phase = "unmounted"
    /\ isRefreshingPrices
    /\ refreshes = <<>>
    /\ collabCalls > 0
    /\ storage = JsonStringify(assets)

----------------------------------------------------------------------------
(* Insights and valuation *)

\* C19: starting an insight request by the manual trigger, and completing
\* one with any response (failure, empty, malformed or well-formed), leaves
\* the collection and the persisted blob unchanged and App rendering, so
\* every valuation output (a function of the collection) is unchanged and
\* available.
C19_InsightsLeaveValuation ==
    [][(GenerateReportClick \/ InsightComplete) =>
          /\ assets' = assets
          /\ storage' = storage
          /\ phase' = "running"]_vars

----------------------------------------------------------------------------
(* The price request *)

\* the k-th entry of a request names asset a
Names(entry, a) ==
    entry = [name |-> a.name, symbol |-> a.symbol, currency |-> a.currency]

\* C20: the request a started refresh hands to the collaborator names exactly
\* the assets of the collection that are not bank accounts; when there is
\* none, no collaborator call is made and the refresh gets the empty mapping.
C20_RequestNamesTrackable ==
    [][Len(refreshes') > Len(refreshes) =>
          LET call == refreshes'[Len(refreshes')]
              others == {j \in 1..Len(assets) : assets[j].type # BANK_ACCOUNT}
          IN  /\ Len(call.request) = Cardinality(others)
              /\ \A j \in others :
                    \E k \in 1..Len(call.request) : Names(call.request[k], assets[j])
              /\ call.called <=> others # {}
              /\ collabCalls' = IF others = {} THEN collabCalls ELSE collabCalls + 1
              /\ others = {} =>
                    \A resp \in Responses :
                        getBatchPrices(call, resp) = [kind |-> "object", map |-> EmptyMap]]_vars

\* a refresh that asked for the one holding has completed, the holding was
\* deleted, and the next refresh, of bank accounts only, made no call
C20_Witness ==
    /\ collabCalls = 1
    /\ Len(refreshes) = 1
    /\ ~refreshes[1].called
    /\ Len(assets) > 0
    /\ \A k \in 1..Len(assets) : assets[k].type = BANK_ACCOUNT

----------------------------------------------------------------------------
(* The merge and the store under concurrency *)

\* asset b is asset a but for its currentPrice
SameButPrice(a, b) == b = [a EXCEPT !.currentPrice = b.currentPrice]

\* C21: the completion of a refresh, merge or not, leaves the number of
\* assets, their order and every field of every asset but currentPrice as
\* they were.
C21_MergeTouchesPriceOnly ==
    [][\/ /\ Len(assets') = Len(assets)
          /\ \A k \in 1..Len(assets) : SameButPrice(assets[k], assets'[k])
       \/ ~RefreshComplete]_vars

\* a merge has written a price into a collection of several assets
C21_Witness ==
    /\ lastUpdated > 0
    /\ Len(assets) > 1
    /\ \E k \in 1..Len(assets) : assets[k].currentPrice = 70000
    /\ userOps = 0

\* C22: every step that changes the collection starts an insight request for
\* the new collection when it is not empty, whether or not requests are
\* outstanding already; when the new collection is empty the step sets the
\* insight list to empty and starts no request.
C22_ChangeStartsInsights ==
    [][assets' # assets =>
          IF Len(assets') = 0
          THEN /\ insights' = EmptyList
               /\ insightReqs' = insightReqs
          ELSE /\ insightReqs' = Append(insightReqs, [prompt |-> JsonStringify(assets')])
               /\ loadingInsights']_vars

\* a save started a request for the new collection while the request for
\* the previous collection was still outstanding
C22_Witness ==
    /\ phase = "running"
    /\ userOps = 1
    /\ Len(insightReqs) = 2
    /\ insightReqs[1].prompt = JsonStringify(InitialAssets(saved))
    /\ insightReqs[2].prompt = JsonStringify(assets)
    /\ insightReqs[1] # insightReqs[2]

\* C23: whichever outstanding insight request resolves, first or last
\* issued, the insight list becomes the result of its response; the list
\* shown once all have resolved is therefore the result of the response that
\* resolved last, possibly one computed for an older collection.
C23_LastResponseWins ==
    [][\A i \in 1..Len(insightReqs), resp \in InsightResponses :
          \/ insights' = getAIInsights(insightReqs[i].prompt, resp)
          \/ ~InsightResume(i, resp)]_vars

\* all requests have resolved and the list shown answers the prompt of a
\* collection that is no longer the current one
C23_Witness ==
    /\ phase = "running"
    /\ insightReqs = <<>>
    /\ ~loadingInsights
    /\ insights.kind = "array"
    /\ insights.len > 0
    /\ insights.prompt # JsonStringify(assets)

\* C24: in every state of the store each BANK_ACCOUNT asset has currentPrice
\* equal to averagePrice, its balance.
C24_BankPriceIsBalance ==
    \A k \in 1..Len(assets) :
        assets[k].type = BANK_ACCOUNT => assets[k].currentPrice = assets[k].averagePrice

\* what the response resp to call makes of asset a of the current collection
MergedNow(a, call, resp) ==
    IF /\ call.called
       /\ resp.kind = "object"
       /\ a.symbol \in DOMAIN resp.map
       /\ resp.map[a.symbol].t = "num"
       /\ resp.map[a.symbol].v # 0
    THEN [a EXCEPT !.currentPrice = resp.map[a.symbol].v]
    ELSE a

\* C25: when the response of a refresh arrives, the merge is applied to the
\* collection as it is then, not as it was when the refresh started: the
\* collection afterwards has the assets of the collection at response time,
\* in their order and with their fields, but for the refreshed prices.  An
\* asset added meanwhile is present, a deleted one is not restored, an
\* edited one keeps its edited fields.
C25_MergeAtResponseTime ==
    [][\A i \in 1..Len(refreshes), resp \in Responses :
          \/ /\ Len(assets') = Len(assets)
             /\ \A k \in 1..Len(assets) :
                   assets'[k] = MergedNow(assets[k], refreshes[i], resp)
          \/ ~RefreshResume(i, resp)]_vars

\* a holding was added while a refresh was in flight (the request answered
\* last names fewer assets than the collection has to ask for, and the
\* add's insight request precedes the merge's), and the merge wrote a price
C25_Witness ==
    /\ phase = "running"
    /\ userOps = 1
    /\ lastUpdated > 0
    /\ Len(assets) = Len(InitialAssets(saved)) + 1
    /\ Len(lastRequest) < Cardinality({k \in 1..Len(assets) : assets[k].type # BANK_ACCOUNT})
    /\ Len(insightReqs) = 2
    /\ Len(insightReqs[1].prompt.items) = Len(assets)
    /\ insightReqs[1].prompt # insightReqs[2].prompt
    /\ insightReqs[2].prompt = JsonStringify(assets)
    /\ \E k \in 1..Len(assets) : assets[k].currentPrice = 70000

\* C26: saving the edit form of an asset, with the price field as the form
\* was opened with, leaves the asset's currentPrice as it is in the store at
\* the time of the save: a price merged since the form was opened survives.
C26_EditKeepsRefreshedPrice ==
    [][\A k \in 1..Len(assets) :
          (/\ isModalOpen
           /\ editingAsset.id = assets[k].id
           /\ form.data.currentPrice = editingAsset.currentPrice
           /\ \E randomId \in NewIds : handleSubmit(randomId)) =>
              assets'[k].currentPrice = assets[k].currentPrice]_vars

----------------------------------------------------------------------------
(* Progress of the refresh *)

\* C27: the completion of a refresh, whatever the collaborator answered,
\* clears the refresh-in-progress flag; the flag of the running App is set
\* exactly while an invocation is suspended at its collaborator call; a
\* trigger served with the flag clear and a collection that is not empty
\* starts a new refresh; and, the call completing, a set flag is eventually
\* cleared (or App is gone).
C27_FlagEventuallyCleared ==
    /\ [][RefreshComplete => ~isRefreshingPrices']_vars
    /\ [](Mounted => (isRefreshingPrices <=> Len(refreshes) > 0))
    /\ [][((TimerTick \/ ClickRefresh) /\ ~isRefreshingPrices /\ Len(assets) > 0) =>
             (isRefreshingPrices' /\ lastTrigger' = "started")]_vars
    /\ (Mounted /\ isRefreshingPrices) ~> (~isRefreshingPrices \/ ~Mounted)

\* the first refresh ended in an error, the flag was cleared, and a later
\* trigger has started the second
C27_Witness ==
    /\ phase = "running"
    /\ now = 1
    /\ lastUpdated = 0
    /\ collabCalls = 2
    /\ isRefreshingPrices
    /\ lastTrigger = "started"

----------------------------------------------------------------------------
(* The insight loading indicator *)

\* C28: in every state of the running App the loading indicator is true
\* exactly when at least one insight request is outstanding.
C28_LoadingIffOutstanding ==
    phase = "running" => (loadingInsights <=> Len(insightReqs) > 0)

----------------------------------------------------------------------------
(* Saving into the collection *)

\* C29: saving an asset whose id is in the collection replaces that asset at
\* its position and leaves the length and every other asset unchanged; saving
\* an asset whose id is not in the collection appends it at the end and leaves
\* every existing asset unchanged.
C29_SaveReplacesOrAppends ==
    [][\A randomId \in IdChoices(assets) :
          \A asset \in {SubmittedAsset(form, editingAsset, randomId)} :
             \/ IF \E k \in 1..Len(assets) : assets[k].id = asset.id
                THEN /\ Len(assets') = Len(assets)
                     /\ \A k \in 1..Len(assets) :
                           assets'[k] = IF assets[k].id = asset.id THEN asset
                                        ELSE assets[k]
                ELSE /\ Len(assets') = Len(assets) + 1
                     /\ assets'[Len(assets')] = asset
                     /\ \A k \in 1..Len(assets) : assets'[k] = assets[k]
             \/ ~handleSubmit(randomId)]_vars

\* an edit of a seed asset was saved: it has another quantity at its old
\* position, among the other seed assets
C29_Witness ==
    /\ saved = NoBlob
    /\ userOps = 1
    /\ Len(assets) = Len(INITIAL_ASSETS)
    /\ \E k \in 2..Len(assets) :
          /\ assets[k].id = INITIAL_ASSETS[k].id
          /\ assets[k].quantity # INITIAL_ASSETS[k].quantity
          /\ \A j \in 1..Len(assets) : j # k => assets[j] = INITIAL_ASSETS[j]

----------------------------------------------------------------------------
(* components/AssetModal, one event handler at a time *)

\* selectAsset calls outstanding at once
MaxLookups == 2

\* what the user picks and types in the open form
FormTypes == {US_STOCK}

FormQuantities == {2 * QDen}

FormPrices == {1}

FormCurrencies == {"USD"}

\* the query typed in the search box and the result searchAssets lists for it
SearchQuery == "doge"

\* the prices getCurrentPrice resolves to
LookupPrices == {5}

\* currency select onChange
CurrencyInput(f, c) == [f EXCEPT !.data.currency = c]

\* an event handler of the open form that sets formData or searchQuery
FormStep(f) ==
    /\ Mounted
    /\ isModalOpen
    /\ form' = f
    /\ UNCHANGED <<assets, storage, refreshVars, isModalOpen, editingAsset,
                   lookupVars, userOps, insightVars, appVars>>

\* selectAsset(item) up to its await: the search result is clicked in a
\* category that is searched, after the query that lists it was typed
selectAssetCall(item) ==
    /\ Mounted
    /\ isModalOpen
    /\ form.data.type # BANK_ACCOUNT
    /\ form.searchQuery = SearchQuery
    /\ Len(lookups) < MaxLookups
    /\ form' = [form EXCEPT !.searchQuery = item.name]
    /\ isFetchingPrice' = TRUE
    /\ lookups' = Append(lookups, [item |-> item, formData |-> form.data])
    /\ UNCHANGED <<assets, storage, refreshVars, isModalOpen, editingAsset,
                   userOps, insightVars, appVars>>

\* selectAsset from its await on, for the i-th outstanding call and the
\* price getCurrentPrice resolved to: setFormData({...formData, ...}) with
\* the formData of the render selectAsset was called in
selectAssetResume(i, price) ==
    /\ Mounted
    /\ form' = [form EXCEPT
                  !.data = selectAssetWrite(lookups[i].formData, lookups[i].item, price)]
    /\ isFetchingPrice' = FALSE
    /\ lookups' = Without(lookups, i)
    /\ UNCHANGED <<assets, storage, refreshVars, isModalOpen, editingAsset,
                   userOps, insightVars, appVars>>

\* the App started on the seed portfolio
InitForm == Init /\ saved = NoBlob

\* the user works on one form, opened to add a holding or to edit the first
NextForm ==
    \/ userOps = 0 /\ openAddModal
    \/ userOps = 0 /\ handleEditAsset(1)
    \/ \E t \in FormTypes : FormStep(TypeClick(form, t))
    \/ FormStep(NameInput(form, SearchQuery))
    \/ \E q \in FormQuantities : FormStep(QuantityInput(form, q))
    \/ \E v \in FormPrices : FormStep(AveragePriceInput(form, v))
    \/ \E c \in FormCurrencies : FormStep(CurrencyInput(form, c))
    \/ selectAssetCall(Dogecoin)
    \/ \E i \in 1..Len(lookups), price \in LookupPrices : selectAssetResume(i, price)
    \/ \E randomId \in IdChoices(assets) : handleSubmit(randomId)

SpecForm == InitForm /\ [][NextForm]_vars

\* C30: a single-price lookup started by selecting a search result sets only
\* name, symbol, currentPrice and (when unset) currency: the type, quantity,
\* averagePrice and currency the form holds when the lookup completes, the
\* values entered while it was outstanding among them, are still in the form
\* after it; and the form is not submitted while a lookup is outstanding.
C30_LookupKeepsEntries ==
    [][/\ \A i \in 1..Len(lookups), price \in LookupPrices :
             \/ /\ form'.data.type = form.data.type
                /\ form'.data.quantity = form.data.quantity
                /\ form'.data.averagePrice = form.data.averagePrice
                /\ form'.data.currency = form.data.currency
             \/ ~selectAssetResume(i, price)
       /\ \A randomId \in IdChoices(assets) :
             Len(lookups) = 0 \/ ~handleSubmit(randomId)]_vars

====
